---- MODULE Spec2Model ----
(***************************************************************************)
(* State-machine model of the Recognizer repository:                       *)
(*   src/my_recognizer.py       recognize()                                *)
(*   src/my_model_selectors.py  ModelSelector and its four strategies      *)
(*                                                                         *)
(* The hidden-Markov library (GaussianHMM.fit / .score) is an external     *)
(* collaborator.  A call to it either raises or returns a log-likelihood;  *)
(* the outcome is chosen by \E at the call site.  A fit that is given the  *)
(* instance's random_state is a function of its arguments; a fit that is   *)
(* given no random_state draws from the global generator and may end       *)
(* differently on every call.                                              *)
(*                                                                         *)
(* Floats are modelled exactly: log-likelihoods are integers, derived      *)
(* quantities are rationals [num, den]; den = 0 encodes an infinity.       *)
(***************************************************************************)
EXTENDS Integers, Sequences, FiniteSets, TLC

\* ------------------------------------------------------------------ bounds
MaxItems  == 2      \* test items handed to recognize
MaxModels == 2      \* entries of the models dict
MaxStates == 4      \* largest max_n_components explored
MaxWords  == 3      \* labels in the training vocabulary
MaxSeqs   == 4      \* sequences of this_word

\* --------------------------------------------------------------- constants
NegInf   == -100    \* float('-inf'): below every log-likelihood in LogLs
FallbackN == 3      \* SelectorCV: best_num_components = 3
FoldDivisor == 3    \* SelectorCV: logL_sum / 3
NSplits  == 3       \* KFold(): default number of splits
MinSeqs  == 3       \* SelectorCV: len(self.sequences) >= 3
MinLow   == 2       \* ModelSelector.__init__: min_n_components=2

LogLs == {-40, -1}   \* log-likelihood values a successful score may return
Vocabulary == <<"CAT", "DOG", "FISH", "BIRD">>

\* an outcome of a library call: raised, or returned v
Outcomes == {[ok |-> FALSE, v |-> 0]} \cup {[ok |-> TRUE, v |-> x] : x \in LogLs}

\* ==================================================================
\*  my_recognizer.py
\* ==================================================================
VARIABLES models, nitems, rpc, key, widx, prob_dict, logL_max, best_word,
          probabilities, guesses, score_log

rvars == <<models, nitems, rpc, key, widx, prob_dict, logL_max, best_word,
           probabilities, guesses, score_log>>

Range(s) == {s[i] : i \in 1..Len(s)}

\* the dicts recognize may be handed: label sequences in iteration order
ModelTables ==
  {s \in UNION {[1..k -> Range(SubSeq(Vocabulary, 1, MaxModels))] : k \in 0..MaxModels} :
      \A i, j \in 1..Len(s) : i # j => s[i] # s[j]}

EmptyDict == [w \in {} |-> 0]

\* try: logL = model.score(X, lengths)  except: logL = float('-inf')
LogLOfZero(o) == IF o.ok THEN o.v ELSE 0
LogLOf(o) == IF o.ok THEN o.v ELSE NegInf

\* if logL > logL_max
BeatsGE(logL, cur) == logL >= cur
Beats(logL, cur) == logL > cur

RecInit ==
  /\ models \in ModelTables
  /\ nitems \in 0..MaxItems
  /\ rpc = "items"
  /\ key = 1
  /\ widx = 1
  /\ prob_dict = EmptyDict
  /\ logL_max = NegInf
  /\ best_word = ""
  /\ probabilities = <<>>
  /\ guesses = <<>>
  /\ score_log = <<>>

\* for key, value in X_all.items(): prob_dict = {}; logL_max = -inf
NextItem ==
  /\ rpc = "items"
  /\ key <= nitems
  /\ prob_dict' = EmptyDict
  /\ logL_max' = NegInf
  /\ widx' = 1
  /\ rpc' = "words"
  /\ score_log' = Append(score_log, EmptyDict)
  /\ UNCHANGED <<models, nitems, key, best_word, probabilities, guesses>>

\* for word, model in models.items(): one iteration of the inner loop
ScoreWord ==
  /\ rpc = "words"
  /\ widx <= Len(models)
  /\ \E o \in Outcomes :
       LET word == models[widx]
           logL == LogLOf(o)
       IN  /\ IF Beats(logL, logL_max)
                THEN /\ logL_max' = logL
                     /\ best_word' = word
                ELSE UNCHANGED <<logL_max, best_word>>
           /\ prob_dict' = (word :> logL) @@ prob_dict
           /\ score_log' = [score_log EXCEPT ![key] = (word :> o) @@ @]
  /\ widx' = widx + 1
  /\ UNCHANGED <<models, nitems, rpc, key, probabilities, guesses>>

\* guesses.append(best_word); probabilities.append(prob_dict)
EndItem ==
  /\ rpc = "words"
  /\ widx > Len(models)
  /\ guesses' = Append(guesses, best_word)
  /\ probabilities' = Append(probabilities, prob_dict)
  /\ key' = key + 1
  /\ rpc' = "items"
  /\ UNCHANGED <<models, nitems, widx, prob_dict, logL_max, best_word, score_log>>

\* return probabilities, guesses
RecReturn ==
  /\ rpc = "items"
  /\ key > nitems
  /\ rpc' = "done"
  /\ UNCHANGED <<models, nitems, key, widx, prob_dict, logL_max, best_word,
                 probabilities, guesses, score_log>>

RecNext == NextItem \/ ScoreWord \/ EndItem \/ RecReturn


\* ==================================================================
\*  my_model_selectors.py
\* ==================================================================
VARIABLES kind, min_n_components, max_n_components, n_constant,
          nwords, this_word, nseq, n_features, lenX,
          seeded, spc, n, fold, logL_sum, best_num_components, best_score,
          hist, result, calls, prev_best

svars == <<kind, min_n_components, max_n_components, n_constant,
           nwords, this_word, nseq, n_features, lenX,
           seeded, spc, n, fold, logL_sum, best_num_components, best_score,
           hist, result, calls, prev_best>>

vars == <<rvars, svars>>

\* ---- floats as exact rationals; den = 0 is an infinity of num's sign
Rat(a, b) == [num |-> a, den |-> b]
PosInf == Rat(1, 0)
NegInfR == Rat(-1, 0)
RatLt(a, b) == a.num * b.den < b.num * a.den
RatGt(a, b) == RatLt(b, a)
RatGe(a, b) == ~RatLt(a, b)
RatLe(a, b) == ~RatLt(b, a)

\* np.log(len(self.X)) in thousandths, for len(X) in 1..5
LnMilli == <<0, 693, 1099, 1386, 1609>>

Null == [null |-> TRUE, n_components |-> 0]
Model(k) == [null |-> FALSE, n_components |-> k]

\* range(self.min_n_components, self.max_n_components + 1)
CandidatesOffByOne(lo, hi) == lo..(hi + 1)
Candidates(lo, hi) == lo..hi

\* p = n** + 2 * n * model.n_features - 1, which Python reads as
\* (n ** (+2)) * n * model.n_features - 1
FreeParams(k, d) == ((k ^ 2) * k * d) - 1

\* BIC = -2 * logL + p * np.log(len(self.X))
BICScore(logL, p, N) == Rat((-2 * logL * 1000) + (p * LnMilli[N]), 1000)

\* if BIC < min_BIC
BetterBICFlipped(BIC, min_BIC) == RatGt(BIC, min_BIC)
BetterBIC(BIC, min_BIC) == RatLt(BIC, min_BIC)

\* for word in self.words: if word != self.this_word
ScoredWordsAll(M, this) == 1..M
ScoredWords(M, this) == {w \in 1..M : w # this}

RECURSIVE SumOver(_, _)
SumOver(f, S) == IF S = {} THEN 0
                 ELSE LET w == CHOOSE x \in S : TRUE
                      IN  f[w] + SumOver(f, S \ {w})

\* avgLogL = sumLogL / (len(self.words) - 1): ZeroDivisionError when one label
AvgRaisesNever(M) == FALSE
AvgRaises(M) == M - 1 = 0

\* DIC = logL - avgLogL
DICScore(logL, sumLogL, M) == Rat((logL * (M - 1)) - sumLogL, M - 1)

\* if DIC > max_DIC  /  if logL_avg > best_avg
Higher(x, cur) == RatGt(x, cur)

\* if len(self.sequences) >= 3
CVEnoughTwo(len) == len >= 2
CVEnough(len) == len >= MinSeqs

\* KFold().split(self.sequences) raises ValueError with fewer samples than splits
SplitRaises(len) == len < NSplits

\* logL_avg = logL_sum / 3
FoldAverage(sum) == Rat(sum, FoldDivisor)

\* GaussianHMM(n_components=num_states, ..., random_state=self.random_state).fit(...)
\* a fit with zero states always raises; otherwise the outcome is a function of
\* (X, lengths, random_state, num_states), fixed the first time it is observed
SeededOutcomes(k) == IF k < 1 THEN {FALSE}
                     ELSE IF k \in DOMAIN seeded THEN {seeded[k]}
                     ELSE BOOLEAN

\* base_model: the trained model, or None when the fit raised
base_model(k, fitted) == IF fitted THEN Model(k) ELSE Null

Pairs == {<<lo, hi>> \in (MinLow..(MinLow + 1)) \X (MinLow..MaxStates) : lo <= hi}

SelLocalsInit(k) ==
  /\ spc = "start"
  /\ n = 0
  /\ fold = 0
  /\ logL_sum = 0
  /\ best_num_components = 0
  /\ best_score = IF k = "BIC" THEN PosInf ELSE NegInfR
  /\ hist = EmptyDict
  /\ result = Null

SelInit ==
  /\ kind \in {"Constant", "BIC", "DIC", "CV"}
  /\ \E pr \in Pairs : min_n_components = pr[1] /\ max_n_components = pr[2]
  /\ n_constant \in IF kind = "Constant" THEN 0..MaxStates ELSE {3}
  /\ nwords \in IF kind = "DIC" THEN 1..MaxWords ELSE {2}
  /\ this_word \in IF kind = "DIC" THEN 1..nwords ELSE {1}
  /\ nseq \in IF kind = "CV" THEN 1..MaxSeqs ELSE {3}
  /\ n_features \in IF kind = "BIC" THEN {1, 2} ELSE {1}
  /\ lenX \in IF kind = "BIC" THEN {2, 3} ELSE {3}
  /\ seeded = EmptyDict
  /\ SelLocalsInit(kind)
  /\ calls = 0
  /\ prev_best = 0

SelIdle ==
  /\ kind = "none" /\ min_n_components = MinLow /\ max_n_components = MinLow
  /\ n_constant = 3 /\ nwords = 1 /\ this_word = 1 /\ nseq = 1
  /\ n_features = 1 /\ lenX = 1 /\ seeded = EmptyDict
  /\ spc = "idle" /\ n = 0 /\ fold = 0 /\ logL_sum = 0
  /\ best_num_components = 0 /\ best_score = NegInfR /\ hist = EmptyDict
  /\ result = Null /\ calls = 0 /\ prev_best = 0

RecIdle ==
  /\ models = <<>> /\ nitems = 0 /\ rpc = "idle" /\ key = 1 /\ widx = 1
  /\ prob_dict = EmptyDict /\ logL_max = NegInf /\ best_word = ""
  /\ probabilities = <<>> /\ guesses = <<>> /\ score_log = <<>>

config == <<kind, min_n_components, max_n_components, n_constant,
            nwords, this_word, nseq, n_features, lenX>>

\* return self.base_model(best_num_components)
Return(best) ==
  \E fitted \in SeededOutcomes(best) :
     /\ result' = base_model(best, fitted)
     /\ seeded' = (best :> fitted) @@ seeded
     /\ spc' = "done"
     /\ calls' = calls + 1

\* SelectorConstant.select
SelectConstant ==
  /\ spc = "start"
  /\ kind = "Constant"
  /\ best_num_components' = n_constant
  /\ Return(n_constant)
  /\ UNCHANGED <<config, n, fold, logL_sum, best_score, hist, prev_best, rvars>>

\* SelectorBIC/DIC.select up to the for statement; SelectorCV.select when
\* len(self.sequences) >= 3
EnterLoop ==
  /\ spc = "start"
  /\ kind \in {"BIC", "DIC", "CV"}
  /\ kind = "CV" => CVEnough(nseq)
  /\ n' = min_n_components
  /\ spc' = "loop"
  /\ UNCHANGED <<config, seeded, fold, logL_sum, best_num_components, best_score,
                 hist, result, calls, prev_best, rvars>>

\* SelectorCV.select, else branch: best_num_components = 3
CVFallback ==
  /\ spc = "start"
  /\ kind = "CV"
  /\ ~CVEnough(nseq)
  /\ best_num_components' = FallbackN
  /\ spc' = "final"
  /\ UNCHANGED <<config, seeded, n, fold, logL_sum, best_score,
                 hist, result, calls, prev_best, rvars>>

\* SelectorBIC.select: one iteration of the for loop, try body and except
BICCandidate ==
  /\ spc = "loop"
  /\ kind = "BIC"
  /\ n \in Candidates(min_n_components, max_n_components)
  /\ \E trained \in BOOLEAN, o \in Outcomes :
       IF trained /\ o.ok
         THEN LET logL == o.v
                  p == FreeParams(n, n_features)
                  BIC == BICScore(logL, p, lenX)
              IN  /\ hist' = (n :> [ok |-> TRUE, logL |-> logL, p |-> p, score |-> BIC]) @@ hist
                  /\ IF BetterBIC(BIC, best_score)
                       THEN /\ best_score' = BIC
                            /\ best_num_components' = n
                       ELSE UNCHANGED <<best_score, best_num_components>>
         ELSE /\ hist' = (n :> [ok |-> FALSE, logL |-> 0, p |-> 0, score |-> PosInf]) @@ hist
              /\ UNCHANGED <<best_score, best_num_components>>
  /\ n' = n + 1
  /\ UNCHANGED <<config, seeded, spc, fold, logL_sum, result, calls, prev_best, rvars>>

\* SelectorDIC.select: one iteration of the for loop, try body and except
DICCandidate ==
  /\ spc = "loop"
  /\ kind = "DIC"
  /\ n \in Candidates(min_n_components, max_n_components)
  /\ \E trained \in BOOLEAN, sc \in [1..nwords -> Outcomes] :
       LET scored == ScoredWords(nwords, this_word)
           allok == /\ trained
                    /\ sc[this_word].ok
                    /\ \A w \in scored : sc[w].ok
                    /\ ~AvgRaises(nwords)
       IN IF allok
            THEN LET logL == sc[this_word].v
                     sumLogL == SumOver([w \in 1..nwords |-> sc[w].v], scored)
                     DIC == DICScore(logL, sumLogL, nwords)
                 IN  /\ hist' = (n :> [ok |-> TRUE, scores |-> [w \in 1..nwords |-> sc[w].v],
                                       score |-> DIC]) @@ hist
                     /\ IF Higher(DIC, best_score)
                          THEN /\ best_score' = DIC
                               /\ best_num_components' = n
                          ELSE UNCHANGED <<best_score, best_num_components>>
            ELSE /\ hist' = (n :> [ok |-> FALSE, scores |-> [w \in 1..nwords |-> 0],
                                   score |-> NegInfR]) @@ hist
                 /\ UNCHANGED <<best_score, best_num_components>>
  /\ n' = n + 1
  /\ UNCHANGED <<config, seeded, spc, fold, logL_sum, result, calls, prev_best, rvars>>

\* SelectorCV.select: top of one for-loop iteration: logL_sum = 0, KFold().split
CVCandidate ==
  /\ spc = "loop"
  /\ kind = "CV"
  /\ n \in Candidates(min_n_components, max_n_components)
  /\ logL_sum' = 0
  /\ IF SplitRaises(nseq)
       THEN /\ hist' = (n :> [ok |-> FALSE, folds |-> <<>>, score |-> NegInfR]) @@ hist
            /\ n' = n + 1
            /\ UNCHANGED <<spc, fold>>
       ELSE /\ hist' = (n :> [ok |-> FALSE, folds |-> <<>>, score |-> NegInfR]) @@ hist
            /\ fold' = 1
            /\ spc' = "fold"
            /\ UNCHANGED n
  /\ UNCHANGED <<config, seeded, best_num_components, best_score, result, calls,
                 prev_best, rvars>>

\* variant of the fold step in which a raise skips only that fold
CVFoldSkipOnly ==
  /\ spc = "fold"
  /\ fold <= NSplits
  /\ \E trained \in BOOLEAN, o \in Outcomes :
       IF trained /\ o.ok
         THEN /\ logL_sum' = logL_sum + o.v
              /\ hist' = [hist EXCEPT ![n].folds = Append(@, o)]
         ELSE /\ hist' = [hist EXCEPT ![n].folds = Append(@, [ok |-> FALSE, v |-> 0])]
              /\ UNCHANGED logL_sum
  /\ fold' = fold + 1
  /\ UNCHANGED <<config, seeded, spc, n, best_num_components, best_score, result, calls,
                 prev_best, rvars>>

\* SelectorCV.select: one fold: fit on the train part, score the held-out part;
\* a raise leaves the fold loop for the except clause of the candidate
CVFold ==
  /\ spc = "fold"
  /\ fold <= NSplits
  /\ \E trained \in BOOLEAN, o \in Outcomes :
       IF trained /\ o.ok
         THEN /\ logL_sum' = logL_sum + o.v
              /\ hist' = [hist EXCEPT ![n].folds = Append(@, o)]
              /\ fold' = fold + 1
              /\ UNCHANGED <<spc, n>>
         ELSE /\ hist' = [hist EXCEPT ![n].folds = Append(@, [ok |-> FALSE, v |-> 0])]
              /\ n' = n + 1
              /\ spc' = "loop"
              /\ UNCHANGED <<logL_sum, fold>>
  /\ UNCHANGED <<config, seeded, best_num_components, best_score, result, calls,
                 prev_best, rvars>>

\* SelectorCV.select: after the fold loop: average and comparison
CVAverage ==
  /\ spc = "fold"
  /\ fold > NSplits
  /\ LET logL_avg == FoldAverage(logL_sum)
     IN  /\ hist' = [hist EXCEPT ![n].ok = TRUE, ![n].score = logL_avg]
         /\ IF Higher(logL_avg, best_score)
              THEN /\ best_score' = logL_avg
                   /\ best_num_components' = n
              ELSE UNCHANGED <<best_score, best_num_components>>
  /\ n' = n + 1
  /\ spc' = "loop"
  /\ UNCHANGED <<config, seeded, fold, logL_sum, result, calls, prev_best, rvars>>

\* SelectorBIC/DIC/CV.select: return self.base_model(best_num_components)
Finish ==
  /\ \/ spc = "final"
     \/ spc = "loop" /\ n \notin Candidates(min_n_components, max_n_components)
  /\ Return(best_num_components)
  /\ UNCHANGED <<config, n, fold, logL_sum, best_num_components, best_score, hist,
                 prev_best, rvars>>

\* a second select() on the same instance: the locals are initialised again,
\* the instance (data, bounds, random_state) is the same
Reselect ==
  /\ spc = "done"
  /\ calls < 2
  /\ prev_best' = best_num_components
  /\ spc' = "start"
  /\ n' = 0
  /\ fold' = 0
  /\ logL_sum' = 0
  /\ best_num_components' = 0
  /\ best_score' = IF kind = "BIC" THEN PosInf ELSE NegInfR
  /\ hist' = EmptyDict
  /\ result' = Null
  /\ UNCHANGED <<config, seeded, calls, rvars>>

SelNext ==
  \/ SelectConstant
  \/ EnterLoop
  \/ CVFallback
  \/ BICCandidate
  \/ DICCandidate
  \/ CVCandidate
  \/ CVFold
  \/ CVAverage
  \/ Finish

\* one select() call, then possibly a second one on the same instance
SelTwiceNext == SelNext \/ Reselect

InitRecognize == RecInit /\ SelIdle
NextRecognize == RecNext /\ UNCHANGED svars
InitSelect == SelInit /\ RecIdle

SpecRecognize == InitRecognize /\ [][NextRecognize]_vars
SpecSelect == InitSelect /\ [][SelNext]_vars
SpecSelectTwice == InitSelect /\ [][SelTwiceNext]_vars

\* ==================================================================
\*  Properties
\* ==================================================================

\* the first label, in iteration order of models, holding the largest value of d
ArgMaxFirst(d) ==
  LET j == CHOOSE a \in 1..Len(models) :
             /\ \A b \in 1..Len(models) : d[models[a]] >= d[models[b]]
             /\ \A b \in 1..(a - 1) : d[models[b]] < d[models[a]]
  IN  models[j]

\* C1: for every test item i, guesses[i] is the label holding the maximum of
\* probabilities[i], the first-iterated label winning exact ties, also when
\* every label of the item scored negative infinity.
C1_GuessIsArgMax ==
  \A i \in 1..Len(guesses) :
     Len(models) > 0 => guesses[i] = ArgMaxFirst(probabilities[i])

\* C2: for every candidate that SelectorBIC scored, p = n*n + 2*n*d - 1 and
\* BIC = -2*logL + p*log(N).
C2_FreeParamCount ==
  kind = "BIC" =>
    \A c \in DOMAIN hist :
       hist[c].ok =>
         /\ hist[c].p = (c * c) + (2 * c * n_features) - 1
         /\ hist[c].score = Rat((-2000 * hist[c].logL) + (hist[c].p * LnMilli[lenX]), 1000)

HasFailedFold(c) == \E f \in 1..Len(hist[c].folds) : ~hist[c].folds[f].ok
RECURSIVE FoldSum(_)
FoldSum(fs) == IF fs = <<>> THEN 0
               ELSE (IF Head(fs).ok THEN Head(fs).v ELSE 0) + FoldSum(Tail(fs))

\* C3 (as stated): a fold that raises is the only thing skipped: the other
\* folds of candidate n are still run and summed, the sum is divided by 3 and
\* the candidate competes for the maximum average.
C3_OnlyFoldSkipped ==
  kind = "CV" =>
    \A c \in DOMAIN hist :
       (c < n /\ HasFailedFold(c)) =>
          /\ Len(hist[c].folds) = NSplits
          /\ RatGe(best_score, Rat(FoldSum(hist[c].folds), FoldDivisor))

\* C3 (amended): a fold that raises ends the candidate: no later fold of n is
\* run, n does not compete and is never chosen; a candidate whose folds all
\* succeeded has its sum divided by the fixed 3 and competes for the maximum.
C3_CandidateSkipped ==
  kind = "CV" =>
    \A c \in DOMAIN hist :
       c < n =>
         /\ HasFailedFold(c) =>
              /\ ~hist[c].ok
              /\ ~hist[c].folds[Len(hist[c].folds)].ok
              /\ \A f \in 1..(Len(hist[c].folds) - 1) : hist[c].folds[f].ok
              /\ best_num_components # c
         /\ (~HasFailedFold(c) /\ ~SplitRaises(nseq)) =>
              /\ hist[c].ok
              /\ Len(hist[c].folds) = NSplits
              /\ hist[c].score = Rat(FoldSum(hist[c].folds), 3)
              /\ RatGe(best_score, hist[c].score)
              /\ best_num_components \in DOMAIN hist
              /\ hist[best_num_components].score = best_score

C3_Witness ==
  /\ kind = "CV"
  /\ spc = "done"
  /\ \E c \in DOMAIN hist : Len(hist[c].folds) = 2 /\ HasFailedFold(c)
  /\ \E c \in DOMAIN hist : hist[c].ok /\ best_num_components = c

\* C4: two select() calls on the same instance choose the same component count.
C4_SameChoiceTwice ==
  (calls = 2 /\ spc = "done") => best_num_components = prev_best

OkCandidates == {c \in DOMAIN hist : hist[c].ok}

\* C5: SelectorBIC returns base_model(best n) where best n has the minimum BIC
\* among the candidates that trained and scored; a failed candidate is never
\* chosen; with no successful candidate best n is 0 and the result is null.
C5_BICMinimum ==
  (kind = "BIC" /\ spc = "done") =>
     /\ DOMAIN hist = min_n_components..max_n_components
     /\ OkCandidates = {} => (best_num_components = 0 /\ result = Null)
     /\ OkCandidates # {} =>
          /\ best_num_components \in OkCandidates
          /\ \A c \in OkCandidates :
                RatLe(hist[best_num_components].score, hist[c].score)
     /\ best_num_components \in DOMAIN seeded
     /\ result = IF seeded[best_num_components] THEN Model(best_num_components) ELSE Null

C5_Witness ==
  /\ kind = "BIC"
  /\ spc = "done"
  /\ \E c \in DOMAIN hist : ~hist[c].ok
  /\ \E c \in OkCandidates : c < best_num_components /\ hist[c].score # best_score
  /\ ~result.null

\* DIC of a scored candidate, from the scores it obtained on every label
C6_DIC(c) ==
  LET others == {w \in 1..nwords : w # this_word}
  IN  Rat((hist[c].scores[this_word] * (nwords - 1)) - SumOver(hist[c].scores, others),
          nwords - 1)

\* C6: with at least 2 labels SelectorDIC returns base_model(best n) where best
\* n maximizes logL_self - sum(scores on the other labels)/(labels - 1) among
\* the candidates whose every step succeeded; a failed candidate is never chosen.
C6_DICMaximum ==
  (kind = "DIC" /\ nwords >= 2 /\ spc = "done") =>
     /\ DOMAIN hist = min_n_components..max_n_components
     /\ OkCandidates = {} => best_num_components = 0
     /\ OkCandidates # {} =>
          /\ best_num_components \in OkCandidates
          /\ \A c \in OkCandidates : RatGe(C6_DIC(best_num_components), C6_DIC(c))
     /\ best_num_components \in DOMAIN seeded
     /\ result = IF seeded[best_num_components] THEN Model(best_num_components) ELSE Null

C6_Witness ==
  /\ kind = "DIC"
  /\ nwords >= 3
  /\ spc = "done"
  /\ \E c \in DOMAIN hist : ~hist[c].ok
  /\ \E c \in OkCandidates : c < best_num_components /\ RatLt(C6_DIC(c), best_score)
  /\ ~result.null

\* C7: a raising score call is recorded as negative infinity and nothing else
\* is lost: probabilities and guesses hold one entry per test item, every
\* probabilities[i] has exactly the labels of models as keys, each value being
\* the model's score or negative infinity when scoring raised.
C7_EveryItemRecorded ==
  /\ Len(probabilities) = Len(guesses)
  /\ Len(probabilities) = key - 1
  /\ rpc = "done" => Len(probabilities) = nitems
  /\ \A i \in 1..Len(probabilities) :
        /\ DOMAIN probabilities[i] = Range(models)
        /\ \A w \in Range(models) :
              probabilities[i][w] =
                 IF score_log[i][w].ok THEN score_log[i][w].v ELSE NegInf

C7_Witness ==
  /\ rpc = "done"
  /\ nitems >= 2
  /\ Len(models) >= 2
  /\ \E i \in 1..nitems : \E w \in Range(models) : ~score_log[i][w].ok
  /\ \E i \in 1..nitems : \E w \in Range(models) : score_log[i][w].ok

\* C8: select() returns null or a model from base_model whose component count
\* lies in [min_n_components, max_n_components]; SelectorConstant uses
\* n_constant and SelectorCV with fewer than 3 sequences uses 3.
C8_ResultInRange ==
  spc = "done" =>
     \/ result = Null
     \/ /\ result = Model(result.n_components)
        /\ result.n_components \in DOMAIN seeded
        /\ seeded[result.n_components]
        /\ IF kind = "Constant" THEN result.n_components = n_constant
           ELSE IF kind = "CV" /\ nseq < 3 THEN result.n_components = 3
           ELSE result.n_components \in min_n_components..max_n_components

C8_Witness ==
  /\ spc = "done"
  /\ kind = "CV"
  /\ nseq >= 3
  /\ \E c \in DOMAIN hist : ~hist[c].ok
  /\ ~result.null
  /\ result.n_components = max_n_components

\* C9: with fewer than 3 sequences SelectorCV splits no fold, trains and scores
\* no candidate, and returns exactly base_model(3) whatever the bounds are.
C9_LowDataFallback ==
  (kind = "CV" /\ nseq < 3) =>
     /\ hist = EmptyDict
     /\ spc \notin {"loop", "fold"}
     /\ spc = "done" =>
          /\ best_num_components = 3
          /\ 3 \in DOMAIN seeded
          /\ result = IF seeded[3] THEN Model(3) ELSE Null

C9_Witness ==
  /\ kind = "CV"
  /\ nseq < 3
  /\ spc = "done"
  /\ 3 \notin min_n_components..max_n_components
  /\ result = Model(3)

\* C10: with exactly one label SelectorDIC raises nothing: every candidate
\* fails at the division inside the try, none is chosen, best n stays 0 and
\* select() returns base_model(0), which is null.
C10_SingleLabelDIC ==
  (kind = "DIC" /\ nwords = 1) =>
     /\ \A c \in DOMAIN hist : ~hist[c].ok
     /\ best_num_components = 0
     /\ best_score = NegInfR
     /\ spc = "done" => (result = Null /\ DOMAIN hist = min_n_components..max_n_components)

C10_Witness ==
  /\ kind = "DIC"
  /\ nwords = 1
  /\ spc = "done"
  /\ Cardinality(DOMAIN hist) >= 2
  /\ result = Null
====
